---- MODULE Spec2Model ----
(***************************************************************************)
(* Model of src/src/core/style.js (xui "Style" mixin): setStyle, getStyle, *)
(* addClass, hasClass, removeClass, css and the private class-name regex   *)
(* cache.  Strings are sequences of one-character strings.  A RegExp built *)
(* by getClassRegEx is '(?:^|\s+)' + className + '(?:\s+|$)': className is *)
(* spliced into the pattern unescaped, so "." in it is the regex wildcard. *)
(***************************************************************************)
EXTENDS Integers, Sequences, FiniteSets, TLC

\* ---- bounds of the model ------------------------------------------------
\* largest collection
MaxEls == 2
\* class-name characters in the initial collection, all elements together
MaxChars == 3
\* method calls in one behaviour
MaxOps == 2

\* ---- input alphabets ----------------------------------------------------
Ws == {" "}
InitAlphabet == {"a", "b", " "}
\* class names passed to addClass / hasClass / removeClass
ClassNames == {<<"b">>, <<"a", ".">>}
\* those without a regex metacharacter
PlainNames == {<<"b">>}
\* the JavaScript value undefined, as an argument
Undefined == <<"undefined">>
Props == {"color", "border"}
Values == {"red", "blue"}

VARIABLES els, reClassNameCache, compiled, log, ret, calls
vars == <<els, reClassNameCache, compiled, log, ret, calls>>

\* ---- strings ------------------------------------------------------------
IsSpace(c) == c \in Ws

Max(S) == CHOOSE x \in S : \A y \in S : y <= x
Min(S) == CHOOSE x \in S : \A y \in S : x <= y

\* number of whitespace characters starting at 0-based offset i of str
RECURSIVE WsRun(_, _)
WsRun(str, i) ==
    IF i < Len(str) /\ IsSpace(str[i + 1]) THEN 1 + WsRun(str, i + 1) ELSE 0

\* whitespace characters ending at the end of str
RECURSIVE WsTail(_, _)
WsTail(str, n) ==
    IF n > 0 /\ IsSpace(str[n]) THEN 1 + WsTail(str, n - 1) ELSE 0

\* text.replace(rtrim, ""), rtrim = /^(\s|\u00A0)+|(\s|\u00A0)+$/g
trim(text) ==
    LET lead == WsRun(text, 0)
    IN IF lead = Len(text) THEN <<>>
       ELSE SubSeq(text, lead + 1, Len(text) - WsTail(text, Len(text)))

\* whitespace-delimited tokens of a class-name string
Tokens(str) ==
    {SubSeq(str, i, j) : <<i, j>> \in
        {p \in (1..Len(str)) \X (1..Len(str)) :
            /\ p[1] <= p[2]
            /\ \A k \in p[1]..p[2] : ~IsSpace(str[k])
            /\ (p[1] = 1 \/ IsSpace(str[p[1] - 1]))
            /\ (p[2] = Len(str) \/ IsSpace(str[p[2] + 1]))}}

\* ---- the regular expression (?:^|\s+) body (?:\s+|$) ---------------------
\* one pattern character against one subject character
CharMatch(pc, c) == pc = "." \/ pc = c

BodyAt(body, str, p) ==
    /\ p + Len(body) <= Len(str)
    /\ \A j \in 1..Len(body) : CharMatch(body[j], str[p + j])

\* end offset of (?:\s+|$) tried at offset q, -1 when it fails
SuffixEnd(str, q) ==
    IF WsRun(str, q) > 0 THEN q + WsRun(str, q)
    ELSE IF q = Len(str) THEN q ELSE -1

\* offset where the body starts for a match starting at s, -1 when none:
\* the alternative ^ first, then \s+ greedy, backing off one at a time
BodyStart(body, str, s) ==
    LET ok(p) == BodyAt(body, str, p) /\ SuffixEnd(str, p + Len(body)) >= 0
        viaWs == {p \in (s + 1)..(s + WsRun(str, s)) : ok(p)}
    IN IF s = 0 /\ ok(0) THEN 0
       ELSE IF viaWs # {} THEN Max(viaWs) ELSE -1

\* leftmost match <<start, end>> (0-based, end exclusive), <<>> when none
exec(re, str) ==
    LET starts == {s \in 0..Len(str) : BodyStart(re.source, str, s) >= 0}
    IN IF starts = {} THEN <<>>
       ELSE LET s == Min(starts)
                p == BodyStart(re.source, str, s)
            IN <<s, SuffixEnd(str, p + Len(re.source))>>

\* re.test(str)
test(re, str) == exec(re, str) # <<>>

\* str.replace(re, ''): the regex is not global, the first match only
replace(str, re) ==
    LET m == exec(re, str)
    IN IF m = <<>> THEN str
       ELSE SubSeq(str, 1, m[1]) \o SubSeq(str, m[2] + 1, Len(str))

\* ---- the regex cache ----------------------------------------------------
\* cs is the cache state [cache, compiled]; a RegExp object is
\* [source, id], id telling one compiled object from another
getClassRegExFresh(cs, className) ==
    LET re == [source |-> className, id |-> cs.compiled + 1]
    IN [re |-> re,
        cs |-> [cache |-> [k \in DOMAIN cs.cache \cup {className} |->
                              IF k = className THEN re ELSE cs.cache[k]],
                compiled |-> cs.compiled + 1]]

getClassRegEx(cs, className) ==
    IF className \in DOMAIN cs.cache
    THEN [re |-> cs.cache[className], cs |-> cs]
    ELSE LET re == [source |-> className, id |-> cs.compiled + 1]
         IN [re |-> re,
             cs |-> [cache |-> [k \in DOMAIN cs.cache \cup {className} |->
                                   IF k = className THEN re ELSE cs.cache[k]],
                     compiled |-> cs.compiled + 1]]

\* the private hasClass(el, className)
hasClassEl(cs, el, className) ==
    LET r == getClassRegEx(cs, className)
    IN [val |-> test(r.re, el.className), cs |-> r.cs]

CacheState == [cache |-> reClassNameCache, compiled |-> compiled]

\* ---- elements and collections ------------------------------------------
NoStyle == [p \in Props |-> ""]
Strings(n) == UNION {[1..k -> InitAlphabet] : k \in 0..n}

RECURSIVE TotalLen(_, _)
TotalLen(names, i) ==
    IF i > Len(names) THEN 0 ELSE Len(names[i]) + TotalLen(names, i + 1)

\* collections whose elements differ in className only
ClassCollections ==
    UNION {{[i \in 1..n |-> [id |-> i, className |-> names[i],
                            style |-> NoStyle,
                            sheet |-> [p \in Props |-> "red"]]] :
              names \in {ns \in [1..n -> Strings(MaxChars)] :
                            TotalLen(ns, 1) <= MaxChars}} : n \in 0..MaxEls}

\* collections whose elements differ in the style sheet's values only
StyleCollections ==
    UNION {{[i \in 1..n |-> [id |-> i, className |-> <<>>,
                            style |-> NoStyle, sheet |-> sheets[i]]] :
              sheets \in [1..n -> [Props -> Values]]} : n \in 0..MaxEls}

\* property maps with distinct keys, in for-in (insertion) order
PropMaps ==
    {<<>>} \cup {<<<<p, v>>>> : p \in Props, v \in Values}
           \cup {<<<<p, v>>, <<q, w>>>> :
                    <<p, v, q, w>> \in
                       {t \in Props \X Values \X Props \X Values : t[1] # t[3]}}

Collection == <<"collection", "">>
TypeError == <<"TypeError", "">>
Bool(b) == <<"boolean", IF b THEN "true" ELSE "false">>

Entry(op, cls, cb, prop, val, o) ==
    [op |-> op, cls |-> cls, cb |-> cb, prop |-> prop, val |-> val, o |-> o,
     before |-> els]

Last == log[Len(log)]
Prev == log[Len(log) - 1]

InitRest ==
    /\ reClassNameCache = <<>>
    /\ compiled = 0
    /\ log = <<>>
    /\ ret = <<"none", "">>
    /\ calls = <<>>

InitClass == els \in ClassCollections /\ InitRest
InitStyle == els \in StyleCollections /\ InitRest
Init == InitClass \/ InitStyle

\* ---- setStyle -----------------------------------------------------------
setStyleEach(es, prop, val) ==
    [i \in 1..Len(es) |-> [es[i] EXCEPT !.style[prop] = val]]

setStyle(prop, val) ==
    /\ Len(log) < MaxOps
    /\ els' = setStyleEach(els, prop, val)
    /\ ret' = Collection
    /\ calls' = <<>>
    /\ log' = Append(log, Entry("setStyle", <<>>, FALSE, prop, val, <<>>))
    /\ UNCHANGED <<reClassNameCache, compiled>>

\* ---- getStyle -----------------------------------------------------------
\* document.defaultView.getComputedStyle(el, "").getPropertyValue(p): the
\* inline declaration when there is one, else the style sheet's value
gs(el, p) == IF el.style[p] # "" THEN el.style[p] ELSE el.sheet[p]

getStyleFirstLast(es, prop) ==
    IF Len(es) = 0 THEN TypeError ELSE <<"value", gs(es[Len(es)], prop)>>

getStyleFirst(es, prop) ==
    IF Len(es) = 0 THEN TypeError ELSE <<"value", gs(es[1], prop)>>

getStyleEach(es, prop) ==
    [i \in 1..Len(es) |-> [el |-> es[i].id, arg |-> gs(es[i], prop)]]

getStyle(prop, callback) ==
    /\ Len(log) < MaxOps
    /\ IF ~callback
       THEN ret' = getStyleFirst(els, prop) /\ calls' = <<>>
       ELSE ret' = Collection /\ calls' = getStyleEach(els, prop)
    /\ log' = Append(log, Entry("getStyle", <<>>, callback, prop, "", <<>>))
    /\ UNCHANGED <<els, reClassNameCache, compiled>>

\* ---- css ----------------------------------------------------------------
\* for (var prop in o) that.setStyle(prop, o[prop])
cssPropsFirstKey(es, o, j) ==
    IF j > Len(o) THEN es ELSE setStyleEach(es, o[j][1], o[j][2])

RECURSIVE cssProps(_, _, _)
cssProps(es, o, j) ==
    IF j > Len(o) THEN es
    ELSE cssProps(setStyleEach(es, o[j][1], o[j][2]), o, j + 1)

\* that.each(function (el) { ... }): the loop above once per element
RECURSIVE cssEach(_, _, _)
cssEach(es, o, i) ==
    IF i > Len(es) THEN es ELSE cssEach(cssProps(es, o, 1), o, i + 1)

css(o) ==
    /\ Len(log) < MaxOps
    /\ els' = cssEach(els, o, 1)
    /\ ret' = Collection
    /\ calls' = <<>>
    /\ log' = Append(log, Entry("css", <<>>, FALSE, "", "", o))
    /\ UNCHANGED <<reClassNameCache, compiled>>

\* ---- addClass -----------------------------------------------------------
RECURSIVE addClassEach(_, _, _, _)
addClassEach(es, cs, className, i) ==
    IF i > Len(es) THEN [els |-> es, cs |-> cs]
    ELSE LET h == hasClassEl(cs, es[i], className)
         IN addClassEach(
              IF h.val = FALSE
              THEN [es EXCEPT ![i].className =
                       trim(Append(es[i].className, " ") \o className)]
              ELSE es,
              h.cs, className, i + 1)

addClass(className) ==
    /\ Len(log) < MaxOps
    /\ LET r == addClassEach(els, CacheState, className, 1)
       IN /\ els' = r.els
          /\ reClassNameCache' = r.cs.cache
          /\ compiled' = r.cs.compiled
    /\ ret' = Collection
    /\ calls' = <<>>
    /\ log' = Append(log, Entry("addClass", className, FALSE, "", "", <<>>))

\* ---- hasClass -----------------------------------------------------------
\* this.each(function (el) { if (hasClass(el, el.className)) callback(el) })
\* callback undefined: the call callback(el) throws a TypeError, which ends
\* the iteration
RECURSIVE hasClassEach(_, _, _, _, _)
hasClassEach(es, cs, callback, i, called) ==
    IF i > Len(es) THEN [cs |-> cs, calls |-> called, ret |-> Collection]
    ELSE LET h == hasClassEl(cs, es[i], es[i].className)
         IN IF ~h.val
            THEN hasClassEach(es, h.cs, callback, i + 1, called)
            ELSE IF ~callback
            THEN [cs |-> h.cs, calls |-> called, ret |-> TypeError]
            ELSE hasClassEach(es, h.cs, callback, i + 1,
                              Append(called, [el |-> es[i].id, arg |-> ""]))

hasClassResult(es, cs, className, callback) ==
    IF ~callback /\ Len(es) = 1
    THEN LET h == hasClassEl(cs, es[1], es[1].className)
         IN [cs |-> h.cs, calls |-> <<>>, ret |-> Bool(h.val)]
    ELSE hasClassEach(es, cs, callback, 1, <<>>)

hasClass(className, callback) ==
    /\ Len(log) < MaxOps
    /\ LET r == hasClassResult(els, CacheState, className, callback)
       IN /\ reClassNameCache' = r.cs.cache
          /\ compiled' = r.cs.compiled
          /\ ret' = r.ret
          /\ calls' = r.calls
    /\ log' = Append(log, Entry("hasClass", className, callback, "", "", <<>>))
    /\ UNCHANGED els

\* ---- removeClass --------------------------------------------------------
removeClassFirstOnly(es, cs, className) ==
    [els |-> [i \in 1..Len(es) |->
                 IF i = 1 THEN [es[i] EXCEPT !.className = <<>>] ELSE es[i]],
     cs |-> cs]

removeClassEach(es, cs, className) ==
    IF className = Undefined
    THEN [els |-> [i \in 1..Len(es) |-> [es[i] EXCEPT !.className = <<>>]],
          cs |-> cs]
    ELSE LET r == getClassRegEx(cs, className)
         IN [els |-> [i \in 1..Len(es) |->
                         [es[i] EXCEPT !.className = replace(@, r.re)]],
             cs |-> r.cs]

removeClass(className) ==
    /\ Len(log) < MaxOps
    /\ LET r == removeClassEach(els, CacheState, className)
       IN /\ els' = r.els
          /\ reClassNameCache' = r.cs.cache
          /\ compiled' = r.cs.compiled
    /\ ret' = Collection
    /\ calls' = <<>>
    /\ log' = Append(log, Entry("removeClass", className, FALSE, "", "", <<>>))

\* ---- specifications -----------------------------------------------------
NextClass ==
    \/ \E c \in ClassNames : addClass(c)
    \/ \E c \in ClassNames, cb \in BOOLEAN : hasClass(c, cb)
    \/ \E c \in ClassNames \cup {Undefined} : removeClass(c)

NextStyle ==
    \/ \E p \in Props, v \in Values : setStyle(p, v)
    \/ \E p \in Props, cb \in BOOLEAN : getStyle(p, cb)
    \/ \E o \in PropMaps : css(o)

Next == NextClass \/ NextStyle

Spec == Init /\ [][Next]_vars
\* the class methods alone, over collections that differ in className
SpecClass == InitClass /\ [][NextClass]_vars
\* the style methods alone, over collections that differ in computed style
SpecStyle == InitStyle /\ [][NextStyle]_vars

\* ---- properties ---------------------------------------------------------
Called(op) == Len(log) > 0 /\ Last.op = op
ClassOf(es, i) == Tokens(es[i].className)
Ids(es) == [i \in 1..Len(es) |-> es[i].id]

\* C1: after removeClass(C), C a plain token, no element has C as a token
\* any more and every other token the element had is still one of its tokens.
C1_RemoveClassKeepsOtherTokens ==
    (Called("removeClass") /\ Last.cls \in PlainNames) =>
        \A i \in 1..Len(els) :
            /\ Last.cls \notin ClassOf(els, i)
            /\ (ClassOf(Last.before, i) \ {Last.cls}) \subseteq ClassOf(els, i)

\* C2: hasClass(className) without a callback on a one-element collection
\* returns true exactly when className is a token of the element's className.
C2_HasClassTestsTheArgument ==
    (Called("hasClass") /\ ~Last.cb /\ Len(els) = 1) =>
        ret = Bool(Last.cls \in ClassOf(els, 1))

\* C3: hasClass(className, callback) calls the callback once, in collection
\* order, with each element that has className as a token, with no other
\* element, and returns the collection.
C3_HasClassCallsBackForMembers ==
    (Called("hasClass") /\ Last.cb) =>
        /\ ret = Collection
        /\ [i \in 1..Len(calls) |-> calls[i].el] =
              Ids(SelectSeq(els, LAMBDA e : Last.cls \in Tokens(e.className)))

\* C4: after addClass(C) every element has C as a token, an element that had
\* C already is unchanged, and a second addClass(C) changes no className.
C4_AddClassAddsOnce ==
    Called("addClass") =>
        /\ \A i \in 1..Len(els) :
              /\ Last.cls \in ClassOf(els, i)
              /\ Last.cls \in ClassOf(Last.before, i) => els[i] = Last.before[i]
        /\ (Len(log) > 1 /\ Prev.op = "addClass" /\ Prev.cls = Last.cls) =>
              els = Last.before

\* C5: getStyle(prop) without a callback on a non-empty collection returns
\* the first element's computed value and calls nothing; with a callback it
\* calls it once per element, in order, with that element's computed value,
\* and returns the collection.
C5_GetStyleFirstOrEach ==
    Called("getStyle") =>
        LET computed(e) == IF e.style[Last.prop] # "" THEN e.style[Last.prop]
                           ELSE e.sheet[Last.prop]
        IN IF Last.cb
           THEN /\ ret = Collection
                /\ Len(calls) = Len(els)
                /\ \A i \in 1..Len(els) :
                      calls[i] = [el |-> els[i].id, arg |-> computed(els[i])]
           ELSE Len(els) > 0 => (ret = <<"value", computed(els[1])>> /\ calls = <<>>)

C5_Witness ==
    /\ Len(log) = 2 /\ Len(els) = 2
    /\ Prev.op = "setStyle" /\ Last.op = "getStyle" /\ ~Last.cb
    /\ Last.prop # Prev.prop
    /\ els[1].sheet[Last.prop] # els[2].sheet[Last.prop]
    /\ ret = <<"value", els[1].sheet[Last.prop]>>

\* setStyle(k, o[k]) for each key of o in turn
RECURSIVE SetStyleCalls(_, _, _)
SetStyleCalls(es, o, j) ==
    IF j > Len(o) THEN es
    ELSE SetStyleCalls([i \in 1..Len(es) |->
                           [es[i] EXCEPT !.style[o[j][1]] = o[j][2]]], o, j + 1)

\* C6: css(o) leaves every element's inline style as one setStyle(k, o[k])
\* per key of o would, leaves the properties that are no key of o as they
\* were, and returns the collection.
C6_CssIsSetStylePerKey ==
    Called("css") =>
        /\ ret = Collection
        /\ els = SetStyleCalls(Last.before, Last.o, 1)
        /\ \A i \in 1..Len(els), p \in Props :
              (\A j \in 1..Len(Last.o) : Last.o[j][1] # p) =>
                  els[i].style[p] = Last.before[i].style[p]

C6_Witness ==
    /\ Len(log) = 2 /\ Len(els) = 2
    /\ Prev.op = "setStyle" /\ Last.op = "css" /\ Len(Last.o) = 2
    /\ \E j \in 1..2 : Last.o[j][1] = Prev.prop /\ Last.o[j][2] # Prev.val

\* C7: removeClass() with no argument leaves every element with the empty
\* className, keeps the elements and their order, and returns the collection.
C7_RemoveClassClearsAll ==
    (Called("removeClass") /\ Last.cls = Undefined) =>
        /\ ret = Collection
        /\ Ids(els) = Ids(Last.before)
        /\ \A i \in 1..Len(els) : els[i].className = <<>>

C7_Witness ==
    /\ Called("removeClass") /\ Last.cls = Undefined
    /\ Len(els) = 2
    /\ \A i \in 1..2 : Last.before[i].className # <<>> /\ els[i].className = <<>>

\* C8: a cache entry, once stored, is never replaced or removed; a pattern
\* is compiled on the first lookup of its key only, so that the cache holds
\* one pattern per key and every lookup of a key yields that one object.
C8_CacheCompilesOncePerKey ==
    [][/\ \A k \in DOMAIN reClassNameCache :
             /\ k \in DOMAIN reClassNameCache'
             /\ reClassNameCache'[k] = reClassNameCache[k]
       /\ compiled' = Cardinality(DOMAIN reClassNameCache')
       /\ \A k \in DOMAIN reClassNameCache' : reClassNameCache'[k].source = k
      ]_vars

C8_Witness ==
    /\ Len(log) = 2 /\ Len(els) = 2
    /\ Prev.op = "addClass" /\ Last.op = "removeClass" /\ Last.cls = Prev.cls
    /\ compiled = 1
    /\ DOMAIN reClassNameCache = {Last.cls}

\* C9: hasClass(className) without a callback on a collection of zero, two
\* or more elements completes without an error and returns the collection.
C9_HasClassNoCallbackReturnsCollection ==
    (Called("hasClass") /\ ~Last.cb /\ Len(els) # 1) => ret = Collection

\* C10: for an element that lacks C, addClass(C) then removeClass(C) leaves
\* the element with exactly the class tokens it had before the two calls.
C10_AddThenRemoveRestoresTokens ==
    (/\ Len(log) > 1
     /\ Prev.op = "addClass" /\ Last.op = "removeClass"
     /\ Last.cls = Prev.cls) =>
        \A i \in 1..Len(els) :
            Last.cls \notin ClassOf(Prev.before, i) =>
                ClassOf(els, i) = ClassOf(Prev.before, i)

====
